---- MODULE Spec2Model ----
(***************************************************************************)
(* Model of the plan-execute-reason loop of GeminiSlackAgent               *)
(* (src/cli_agent.py) over the MCP client of src/mcp_client.py.            *)
(*                                                                         *)
(* Strings are sequences of tokens (atomic substrings), so that prefix     *)
(* tests, slicing, splitting and concatenation are computed, not assumed.  *)
(* Python values are records tagged by their type in field t.              *)
(***************************************************************************)
EXTENDS Integers, Sequences, FiniteSets, TLC

(* ------------------------------------------------------------------ *)
(* Bounds of the model                                                 *)
(* ------------------------------------------------------------------ *)
\* longest action list of a plan the Completion Provider returns
MaxActions == 3

\* cap of the agent loop: `while not done and iteration < 5`
MaxIterations == 5

\* most items in the content of a tool result that is normalized on its own
MaxItems == 2

\* most segments after the root in a reference that is resolved on its own
MaxPath == 2

\* most requests mcp_handler serves in one run of the server
MaxRequests == 3

\* longest action list of a plan that execute_plan is run on by itself
MaxExecActions == 2

\* conversations whose turns run on one event loop
MaxConversations == 2

\* inputs run_async reads in one session before 'exit' or an interrupt
MaxInputs == 3

\* calls made on one SlackMCPClientWithLLM
MaxOps == 2

(* ------------------------------------------------------------------ *)
(* Python values                                                       *)
(* ------------------------------------------------------------------ *)
PyNone == [t |-> "None"]
PyStr(s) == [t |-> "str", v |-> s]
PyInt(n) == [t |-> "int", v |-> n]
PyList(s) == [t |-> "list", v |-> s]
\* a dict; its keys are single tokens
PyDict(f) == [t |-> "dict", v |-> f]
\* an object with named attributes (CallToolResult, TextContent, ...)
PyObj(cls, attrs) == [t |-> "obj", cls |-> cls, v |-> attrs]

\* mcp.types.TextContent(type="text", text=s)
TextContent(s) == PyObj("TextContent", [text |-> PyStr(s)])

\* mcp.types.CallToolResult(content=[...])
CallToolResult(items) == PyObj("CallToolResult", [content |-> PyList(items)])

\* hasattr(value, name) for the objects of the model
HasAttr(value, name) == value.t = "obj" /\ name \in DOMAIN value.v

(* ------------------------------------------------------------------ *)
(* Texts the tools return and json.loads on them                       *)
(* ------------------------------------------------------------------ *)
\* '{"f":7}'
TxtObject == <<"{", "\"", "f", "\"", ":", "7", "}">>
\* 'hi' : not JSON
TxtProse == <<"h", "i">>
\* '7'
TxtNumber == <<"7">>
\* 'null'
TxtNull == <<"null">>
\* '[7]'
TxtArray == <<"[", "7", "]">>

\* json.loads(text): [ok |-> TRUE, v |-> value] or a JSONDecodeError
JsonLoads(text) ==
    IF text = TxtObject THEN [ok |-> TRUE, v |-> PyDict([f |-> PyInt(7)])]
    ELSE IF text = TxtNumber THEN [ok |-> TRUE, v |-> PyInt(7)]
    ELSE IF text = TxtNull THEN [ok |-> TRUE, v |-> PyNone]
    ELSE IF text = TxtArray THEN [ok |-> TRUE, v |-> PyList(<<PyInt(7)>>)]
    ELSE [ok |-> FALSE, v |-> PyNone]

\* results the Tool Provider can return from call_tool
ResultOne == CallToolResult(<<TextContent(TxtObject)>>)
ResultTwo == CallToolResult(<<TextContent(TxtProse), TextContent(TxtNumber)>>)
ToolResults == {ResultOne, ResultTwo}

(* ------------------------------------------------------------------ *)
(* extract_tool_result_content                                         *)
(* ------------------------------------------------------------------ *)
\* str(value): a string that names what the value was
Str(value) ==
    IF value.t = "str" THEN value
    ELSE IF value.t = "None" THEN PyStr(<<"None">>)
    ELSE PyStr(<<"str(", IF value.t = "obj" THEN value.cls ELSE value.t, ")">>)

\* json.loads(x.text), or x.text itself on JSONDecodeError or TypeError
LoadsOrText(x) ==
    LET parsed == IF x.v.text.t = "str" THEN JsonLoads(x.v.text.v)
                  ELSE [ok |-> FALSE, v |-> PyNone]
    IN IF parsed.ok THEN parsed.v ELSE x.v.text

\* one item of result.content (lines 77-86)
ExtractItem(item) ==
    IF HasAttr(item, "text") THEN LoadsOrText(item)
    ELSE IF HasAttr(item, "model_dump") THEN item.v.model_dump
    ELSE Str(item)

\* line 96 as `return str(result)`
extract_tool_result_contentStringifies(result) ==
    IF HasAttr(result, "content")
    THEN LET content == result.v.content
         IN IF content.t = "list"
            THEN LET extracted == [j \in 1..Len(content.v) |-> ExtractItem(content.v[j])]
                 IN IF Len(extracted) = 1 THEN extracted[1] ELSE PyList(extracted)
            ELSE IF HasAttr(content, "text") THEN LoadsOrText(content)
            ELSE Str(content)
    ELSE Str(result)

extract_tool_result_content(result) ==
    IF HasAttr(result, "content")
    THEN LET content == result.v.content
         IN IF content.t = "list"
            THEN LET extracted == [j \in 1..Len(content.v) |-> ExtractItem(content.v[j])]
                 IN IF Len(extracted) = 1 THEN extracted[1] ELSE PyList(extracted)
            ELSE IF HasAttr(content, "text") THEN LoadsOrText(content)
            ELSE Str(content)
    ELSE result

(* ------------------------------------------------------------------ *)
(* resolve_reference                                                   *)
(* ------------------------------------------------------------------ *)
Digits == {"0", "1", "2", "3", "4", "5", "6", "7", "8", "9"}

DigitValue(d) ==
    CASE d = "0" -> 0 [] d = "1" -> 1 [] d = "2" -> 2 [] d = "3" -> 3 [] d = "4" -> 4
      [] d = "5" -> 5 [] d = "6" -> 6 [] d = "7" -> 7 [] d = "8" -> 8 [] OTHER -> 9

\* str.startswith for a prefix of tokens
StartsWith(s, prefix) ==
    Len(s) >= Len(prefix) /\ SubSeq(s, 1, Len(prefix)) = prefix

\* ref.replace("]", "").replace("[", ".")
RECURSIVE ReplaceBracketsKeepsClosing(_)
ReplaceBracketsKeepsClosing(s) ==
    IF s = <<>> THEN <<>>
    ELSE IF Head(s) = "[" THEN <<".">> \o ReplaceBracketsKeepsClosing(Tail(s))
    ELSE <<Head(s)>> \o ReplaceBracketsKeepsClosing(Tail(s))

RECURSIVE ReplaceBrackets(_)
ReplaceBrackets(s) ==
    IF s = <<>> THEN <<>>
    ELSE IF Head(s) = "]" THEN ReplaceBrackets(Tail(s))
    ELSE IF Head(s) = "[" THEN <<".">> \o ReplaceBrackets(Tail(s))
    ELSE <<Head(s)>> \o ReplaceBrackets(Tail(s))

\* str.split("."): the list of segments, empty segments included
RECURSIVE SplitDots(_)
SplitDots(s) ==
    IF \A j \in 1..Len(s) : s[j] # "." THEN <<s>>
    ELSE LET k == CHOOSE j \in 1..Len(s) : s[j] = "." /\ \A m \in 1..(j - 1) : s[m] # "."
         IN <<SubSeq(s, 1, k - 1)>> \o SplitDots(SubSeq(s, k + 1, Len(s)))

\* str.isdigit()
IsDigit(part) == part # <<>> /\ \A j \in 1..Len(part) : part[j] \in Digits

\* int(part) of a digit string
RECURSIVE IntOf(_)
IntOf(part) ==
    IF part = <<>> THEN 0
    ELSE 10 * IntOf(SubSeq(part, 1, Len(part) - 1)) + DigitValue(part[Len(part)])

\* the name a segment spells: the keys and attributes of the model are single tokens
NameOf(part) == IF Len(part) = 1 THEN part[1] ELSE ""

Returned(value) == [ok |-> TRUE, v |-> value, err |-> ""]
Raised(exc) == [ok |-> FALSE, v |-> PyNone, err |-> exc]

\* value[int(part)] (line 57)
Subscript(value, n) ==
    IF value.t = "list"
    THEN IF n < Len(value.v) THEN Returned(value.v[n + 1]) ELSE Raised("IndexError")
    ELSE IF value.t = "str"
    THEN IF n < Len(value.v) THEN Returned(PyStr(<<value.v[n + 1]>>)) ELSE Raised("IndexError")
    ELSE IF value.t = "dict" THEN Raised("KeyError")
    ELSE Raised("TypeError")

\* one step of the loop over parts[1:] (lines 56-65)
Member(value, part) ==
    IF IsDigit(part) THEN Subscript(value, IntOf(part))
    ELSE IF value.t = "dict"
    THEN IF NameOf(part) \in DOMAIN value.v
         THEN Returned(value.v[NameOf(part)]) ELSE Returned(PyNone)
    ELSE IF HasAttr(value, NameOf(part)) THEN Returned(value.v[NameOf(part)])
    ELSE Raised("ValueError")

RECURSIVE Walk(_, _)
Walk(value, parts) ==
    IF parts = <<>> THEN Returned(value)
    ELSE LET step == Member(value, Head(parts))
         IN IF step.ok THEN Walk(step.v, Tail(parts)) ELSE step

\* self.context.get(key)
ContextGet(ctx, key) == IF key \in DOMAIN ctx THEN ctx[key] ELSE PyNone

resolve_reference(ctx, ref) ==
    IF ~StartsWith(ref, <<"$">>) THEN Returned(PyStr(ref))
    ELSE LET parts == SplitDots(ReplaceBrackets(Tail(ref)))
             value == ContextGet(ctx, parts[1])
         IN IF value.t = "None" THEN Raised("ValueError")
            ELSE Walk(value, Tail(parts))

(* ------------------------------------------------------------------ *)
(* Plans and the completion texts that carry them                      *)
(* ------------------------------------------------------------------ *)
Absent == [some |-> FALSE]
Some(x) == [some |-> TRUE, v |-> x]

\* names a plan saves under, and the name derived from N: f"{save_as}_data"
NameA == <<"a">>
NameAData == <<"a", "_data">>
DataName(name) == name \o <<"_data">>

\* "$missing_data.field", "$a_data[0]", "$a_data.f", "$a_data"
RefMissing == <<"$", "missing", "_data", ".", "field">>
RefFirst == <<"$", "a", "_data", "[", "0", "]">>
RefField == <<"$", "a", "_data", ".", "f">>
RefAData == <<"$", "a", "_data">>

\* the actions a plan is made of: {tool, args, save_as}
ActList ==
    [tool |-> "list_channels",
     args |-> [user |-> PyStr(RefMissing), channel |-> PyStr(RefAData), text |-> PyStr(<<"hi">>)],
     save_as |-> Some(NameA)]
ActFetch ==
    [tool |-> "get_messages",
     args |-> [channel |-> PyStr(RefFirst), text |-> PyStr(RefField)],
     save_as |-> Some(NameAData)]
Actions == {ActList, ActFetch}

ActionLists == UNION {[1..n -> Actions] : n \in 0..MaxActions}

Responses == {Absent, Some(<<"Here", "you", "go">>)}
DoneFlags == {Absent, Some(TRUE), Some(FALSE)}

\* the objects json.loads can return for a completion
Plans == [actions : ActionLists, response : Responses, done : DoneFlags]

\* tokens of a completion text
Ws == [k |-> "ws"]
Fence == [k |-> "fence"]
Word(w) == [k |-> "word", w |-> w]
Brace == [k |-> "{"]
Object(plan) == [k |-> "object", plan |-> plan]

\* the text ask_gemini returns when generate_content raises (line 40)
GeminiErrorText == <<Word("[Gemini Error]")>>

EmptyPlan == [actions |-> <<>>, response |-> Absent, done |-> Absent]

\* texts generate_content can return
Completions ==
    {<<Object(p)>> : p \in Plans}
    \cup {<<Fence, Word("json"), Ws, Object(p), Ws, Fence>> :
            p \in {q \in Plans : q.actions = <<>> /\ q.response = Absent}}
    \cup {<<Fence, Ws, Object(EmptyPlan), Fence>>,
          <<Word("Hello"), Ws, Word("there")>>,
          <<Ws>>,
          <<Brace, Word("oops")>>,
          <<Object(EmptyPlan), Ws, Word("trailing")>>}

(* ------------------------------------------------------------------ *)
(* execute_plan: fence stripping, classification, parsing              *)
(* ------------------------------------------------------------------ *)
RECURSIVE LStrip(_)
LStrip(s) == IF s # <<>> /\ Head(s) = Ws THEN LStrip(Tail(s)) ELSE s

RECURSIVE RStrip(_)
RStrip(s) ==
    IF s # <<>> /\ s[Len(s)] = Ws THEN RStrip(SubSeq(s, 1, Len(s) - 1)) ELSE s

\* str.strip()
Strip(s) == RStrip(LStrip(s))

EndsWith(s, suffix) ==
    Len(s) >= Len(suffix) /\ SubSeq(s, Len(s) - Len(suffix) + 1, Len(s)) = suffix

\* lines 126-135
StripFence(text) ==
    LET s1 == Strip(text)
        s2 == IF StartsWith(s1, <<Fence, Word("json")>>) THEN SubSeq(s1, 3, Len(s1))
              ELSE IF StartsWith(s1, <<Fence>>) THEN Tail(s1)
              ELSE s1
        s3 == IF EndsWith(s2, <<Fence>>) THEN SubSeq(s2, 1, Len(s2) - 1) ELSE s2
    IN Strip(s3)

\* plan_json.startswith of an opening brace
StartsWithBrace(s) == s # <<>> /\ s[1].k \in {"{", "object"}

\* json.loads(plan_json) of a text that starts with '{'
ParsePlan(s) ==
    IF Len(s) = 1 /\ s[1].k = "object" THEN [ok |-> TRUE, plan |-> s[1].plan]
    ELSE [ok |-> FALSE, plan |-> EmptyPlan]

\* what execute_plan makes of a completion: "text", "parse_error" or "plan"
Classify(text) ==
    LET s == StripFence(text)
    IN IF ~StartsWithBrace(s) THEN "text"
       ELSE IF ParsePlan(s).ok THEN "plan" ELSE "parse_error"

\* `if save_as:` and `if final_response:`
Truthy(opt) == opt.some /\ opt.v # <<>>

\* plan.get("done", True)
DoneOfDefaultFalse(plan) == IF plan.done.some THEN plan.done.v ELSE FALSE

DoneOf(plan) == IF plan.done.some THEN plan.done.v ELSE TRUE

\* self.context[key] = value
Put(ctx, key, value) ==
    [x \in (DOMAIN ctx) \cup {key} |-> IF x = key THEN value ELSE ctx[x]]

\* lines 176-180
SaveResultSwapped(ctx, save_as, result) ==
    IF Truthy(save_as)
    THEN Put(Put(ctx, save_as.v, extract_tool_result_content(result)),
             DataName(save_as.v), result)
    ELSE ctx

\* `if save_as:` as `if save_as is not None:`
SaveResultWhenNotNone(ctx, save_as, result) ==
    IF save_as.some
    THEN Put(Put(ctx, save_as.v, result),
             DataName(save_as.v), extract_tool_result_content(result))
    ELSE ctx

SaveResultDropsOthers(ctx, save_as, result) ==
    IF Truthy(save_as)
    THEN Put(Put(<<>>, save_as.v, result),
             DataName(save_as.v), extract_tool_result_content(result))
    ELSE ctx

SaveResult(ctx, save_as, result) ==
    IF Truthy(save_as)
    THEN Put(Put(ctx, save_as.v, result),
             DataName(save_as.v), extract_tool_result_content(result))
    ELSE ctx

\* lines 161-168: every "$" string argument is replaced by its value, or None
ResolveArgsKeepsReference(ctx, args) ==
    [k \in DOMAIN args |->
        IF args[k].t = "str" /\ StartsWith(args[k].v, <<"$">>)
        THEN LET r == resolve_reference(ctx, args[k].v)
             IN IF r.ok THEN r.v ELSE args[k]
        ELSE args[k]]

ResolveArgs(ctx, args) ==
    [k \in DOMAIN args |->
        IF args[k].t = "str" /\ StartsWith(args[k].v, <<"$">>)
        THEN LET r == resolve_reference(ctx, args[k].v)
             IN IF r.ok THEN r.v ELSE PyNone
        ELSE args[k]]

\* outcomes of mcp_client.call_tool
ToolOutcomes == {Raised("ToolInvocationError")} \cup {Returned(r) : r \in ToolResults}

(* ------------------------------------------------------------------ *)
(* State                                                               *)
(* ------------------------------------------------------------------ *)
VARIABLES
    mcp_client,   \* self.mcp_client: "None" or "connected"
    context,      \* self.context: name -> stored value
    pc,           \* where the agent is: "idle", "loop", "execute", "actions", "returned"
    iteration,    \* handle_user_input: iteration
    done,         \* handle_user_input: done
    plan_json,    \* handle_user_input: plan_json, the completion text of the round
    plan,         \* execute_plan: plan (its args are resolved in place)
    cursor,       \* execute_plan: position of the for loop in plan.actions
    returned,     \* the value execute_plan returns
    calls,        \* the calls of call_tool made by the running execute_plan, in order
    printed,      \* the lines printed by the running round, in order
    last_round,   \* what the round that just finished was; "none" while one runs
    last_turn,    \* how the last handle_user_input ended, or "running"
    listings,     \* the calls of get_tool_list_summary made by the turn
    probe,        \* a function of the agent applied on its own: its input and its result
    current_tokens, \* oauth_server: _current_bot_token and _current_user_token
    requests,     \* oauth_server: the requests mcp_handler is serving
    turns,        \* event loop: where the turn of each conversation is
    thread,       \* event loop: the conversation whose code runs on the thread, or Free
    running,      \* run_async: self.running
    run_state,    \* run_async: where it is, how it ended, the inputs it has read
    cleanups,     \* run_async: the calls of mcp_client.cleanup()
    mcp_session,  \* SlackMCPClientWithLLM._session: "None" or "open"
    client_at,    \* SlackMCPClientWithLLM: how far connect() and cleanup() have come
    ops           \* SlackMCPClientWithLLM: the calls made on it and how they ended

\* the event loop, the session loop and the client taken on their own
hosts == <<turns, thread, running, run_state, cleanups, mcp_session, client_at, ops>>

\* the state outside the agent loop
outside == <<probe, current_tokens, requests, hosts>>

vars == <<mcp_client, context, pc, iteration, done, plan_json, plan, cursor,
          returned, calls, printed, last_round, last_turn, listings, outside>>

Line(kind, n) == [k |-> kind, n |-> n]

\* no function is being applied on its own
NoProbe == [op |-> "none"]

\* no conversation runs on the thread of the event loop (conversations are 1, 2, ...)
Free == 0

\* run_async has not begun
NotRunning == [at |-> "start", ended_by |-> "none", inputs |-> 0, last_input |-> "none"]

\* no conversation has a turn, run_async has not begun, the client is new
HostsIdle ==
    /\ turns = <<>>
    /\ thread = Free
    /\ running = TRUE
    /\ run_state = NotRunning
    /\ cleanups = 0
    /\ mcp_session = "None"
    /\ client_at = "new"
    /\ ops = <<>>

\* set_current_tokens was never called: both globals are None
NoTokens == [bot |-> "None", user |-> "None"]

Init ==
    /\ mcp_client = "None"
    /\ context = <<>>
    /\ pc = "idle"
    /\ iteration = 0
    /\ done = FALSE
    /\ plan_json = <<>>
    /\ plan = EmptyPlan
    /\ cursor = 0
    /\ returned = FALSE
    /\ calls = <<>>
    /\ printed = <<>>
    /\ last_round = "none"
    /\ last_turn = "none"
    /\ listings = 0
    /\ probe = NoProbe
    /\ current_tokens = NoTokens
    /\ requests = <<>>
    /\ HostsIdle

(* ------------------------------------------------------------------ *)
(* Operations                                                          *)
(* ------------------------------------------------------------------ *)
\* connect_mcp
ConnectMcp ==
    /\ pc = "idle"
    /\ mcp_client = "None"
    /\ mcp_client' = "connected"
    /\ UNCHANGED <<context, pc, iteration, done, plan_json, plan, cursor,
                   returned, calls, printed, last_round, last_turn>>
    /\ UNCHANGED <<listings, outside>>

\* handle_user_input on an agent without client: RuntimeError
HandleUserInputUnconnected ==
    /\ pc = "idle"
    /\ mcp_client = "None"
    /\ last_turn' = "RuntimeError"
    /\ UNCHANGED <<mcp_client, context, pc, iteration, done, plan_json, plan,
                   cursor, returned, calls, printed, last_round>>
    /\ listings' = 0
    /\ UNCHANGED outside

\* handle_user_input up to the loop: the tool list is fetched, or the fetch raises
HandleUserInput ==
    /\ pc = "idle"
    /\ mcp_client = "connected"
    /\ \E listed \in BOOLEAN :
         /\ pc' = IF listed THEN "loop" ELSE "idle"
         /\ last_turn' = IF listed THEN "running" ELSE "ListToolsError"
    /\ iteration' = 0
    /\ done' = FALSE
    /\ last_round' = "none"
    /\ UNCHANGED <<mcp_client, context, plan_json, plan, cursor, returned, calls,
                   printed>>
    /\ listings' = 1
    /\ UNCHANGED outside

\* the guard of `while not done and iteration < 5`
LoopGuardOffByOne == ~done /\ iteration <= MaxIterations

LoopGuard == ~done /\ iteration < MaxIterations

\* one pass of the loop head: iteration += 1, the prompt, ask_gemini
AskGemini ==
    /\ pc = "loop"
    /\ LoopGuard
    /\ iteration' = iteration + 1
    /\ plan_json' \in Completions \cup {GeminiErrorText}
    /\ printed' = <<Line("Iteration", iteration + 1)>>
    /\ last_round' = "none"
    /\ pc' = "execute"
    /\ UNCHANGED <<mcp_client, context, done, plan, cursor, returned, calls,
                   last_turn>>
    /\ UNCHANGED <<listings, outside>>

\* the loop ends: handle_user_input returns
ReturnFromTurn ==
    /\ pc = "loop"
    /\ ~LoopGuard
    /\ pc' = "idle"
    /\ last_turn' = "returned"
    /\ UNCHANGED <<mcp_client, context, iteration, done, plan_json, plan, cursor,
                   returned, calls, printed, last_round>>
    /\ UNCHANGED <<listings, outside>>

\* what execute_plan returns for a text-only completion (line 140)
TextOnlyReturn == FALSE

\* what execute_plan returns for a plan that does not parse (line 148)
ParseErrorReturnsFalse == FALSE

ParseErrorReturn == TRUE

\* execute_plan up to the for loop: lines 126-151
ExecutePlanParse ==
    /\ pc = "execute"
    /\ LET kind == Classify(plan_json)
       IN \/ /\ kind = "text"
             /\ printed' = Append(printed, Line("Info text only", 0))
             /\ returned' = TextOnlyReturn
             /\ pc' = "returned"
             /\ UNCHANGED <<plan, cursor>>
          \/ /\ kind = "parse_error"
             /\ printed' = printed \o <<Line("Error parse", 0), Line("Raw response", 0)>>
             /\ returned' = ParseErrorReturn
             /\ pc' = "returned"
             /\ UNCHANGED <<plan, cursor>>
          \/ /\ kind = "plan"
             /\ plan' = ParsePlan(StripFence(plan_json)).plan
             /\ cursor' = 1
             /\ pc' = "actions"
             /\ UNCHANGED <<printed, returned>>
    /\ UNCHANGED <<mcp_client, context, iteration, done, plan_json, calls,
                   last_round, last_turn>>
    /\ UNCHANGED <<listings, outside>>

\* the order in which the arguments of an action print their lines
ArgNames == <<"channel", "text", "user">>

\* the lines the arguments print while they are resolved (lines 165-167)
RECURSIVE ResolveLines(_, _, _, _)
ResolveLines(ctx, args, n, j) ==
    IF j > Len(ArgNames) THEN <<>>
    ELSE LET k == ArgNames[j]
             line == IF k \in DOMAIN args /\ args[k].t = "str" /\ StartsWith(args[k].v, <<"$">>)
                     THEN IF resolve_reference(ctx, args[k].v).ok
                          THEN <<[k |-> "Debug resolved", n |-> n, arg |-> k]>>
                          ELSE <<[k |-> "Error reference", n |-> n, arg |-> k]>>
                     ELSE <<>>
         IN line \o ResolveLines(ctx, args, n, j + 1)

\* where the for loop goes after an action whose call raised (lines 183-186)
AfterToolErrorAbort(n) == Len(plan.actions) + 1

AfterToolError(n) == n + 1

\* one pass of the for loop: resolve the arguments, call the tool, save the result
RunAction ==
    /\ pc = "actions"
    /\ cursor <= Len(plan.actions)
    /\ LET action == plan.actions[cursor]
           args == ResolveArgs(context, action.args)
       IN \E outcome \in ToolOutcomes :
            /\ calls' = Append(calls, [tool |-> action.tool, args |-> args, outcome |-> outcome])
            /\ plan' = [plan EXCEPT !.actions[cursor].args = args]
            /\ context' = IF outcome.ok THEN SaveResult(context, action.save_as, outcome.v)
                          ELSE context
            /\ printed' = printed \o <<Line("Debug calling", cursor)>>
                            \o ResolveLines(context, action.args, cursor, 1)
                            \o (IF outcome.ok
                                THEN <<Line("Debug result", cursor)>>
                                       \o (IF Truthy(action.save_as)
                                           THEN <<Line("Debug saved", cursor)>> ELSE <<>>)
                                ELSE <<Line("Error calling tool", cursor)>>)
            /\ cursor' = IF outcome.ok THEN cursor + 1 ELSE AfterToolError(cursor)
    /\ UNCHANGED <<mcp_client, pc, iteration, done, plan_json, returned, last_round,
                   last_turn>>
    /\ UNCHANGED <<listings, outside>>

\* `if final_response:` after the for loop (lines 189-191)
ShowsResponseOnlyWhenDone(p) == Truthy(p.response) /\ DoneOf(p)

ShowsResponse(p) == Truthy(p.response)

\* `return done` (line 192), done being read from the plan at line 151
PlanResultFalseOnFailure(p, cs) == DoneOf(p) /\ \A i \in DOMAIN cs : cs[i].outcome.ok

PlanResult(p, cs) == DoneOf(p)

\* after the for loop: the response is printed and done is returned (lines 189-192)
FinishPlan ==
    /\ pc = "actions"
    /\ cursor > Len(plan.actions)
    /\ printed' = IF ShowsResponse(plan)
                  THEN Append(printed, Line("response", 0)) ELSE printed
    /\ returned' = PlanResult(plan, calls)
    /\ pc' = "returned"
    /\ UNCHANGED <<mcp_client, context, iteration, done, plan_json, plan, cursor,
                   calls, last_round, last_turn>>
    /\ UNCHANGED <<listings, outside>>

\* what a round was: a failed completion, or the class of its text
RoundKind(text) == IF text = GeminiErrorText THEN "gemini_error" ELSE Classify(text)

\* `done = await self.execute_plan(plan_json)`: the round is over, the locals
\* of execute_plan are gone and plan_json is not read again
AssignDone ==
    /\ pc = "returned"
    /\ done' = returned
    /\ last_round' = RoundKind(plan_json)
    /\ plan_json' = <<>>
    /\ plan' = EmptyPlan
    /\ cursor' = 0
    /\ calls' = <<>>
    /\ printed' = <<>>
    /\ returned' = FALSE
    /\ pc' = "loop"
    /\ UNCHANGED <<mcp_client, context, iteration, last_turn>>
    /\ UNCHANGED <<listings, outside>>

Next ==
    \/ ConnectMcp
    \/ HandleUserInputUnconnected
    \/ HandleUserInput
    \/ AskGemini
    \/ ExecutePlanParse
    \/ RunAction
    \/ FinishPlan
    \/ AssignDone
    \/ ReturnFromTurn

Spec == Init /\ [][Next]_vars

TypeOK ==
    /\ mcp_client \in {"None", "connected"}
    /\ pc \in {"idle", "loop", "execute", "actions", "returned"}
    /\ iteration \in 0..MaxIterations
    /\ done \in BOOLEAN
    /\ returned \in BOOLEAN
    /\ last_round \in {"none", "text", "gemini_error", "parse_error", "plan"}
    /\ last_turn \in {"none", "running", "returned", "RuntimeError", "ListToolsError"}

(* ------------------------------------------------------------------ *)
(* Properties                                                          *)
(* ------------------------------------------------------------------ *)
\* the plan of the running round as the completion gave it (references unresolved)
GivenPlan == ParsePlan(StripFence(plan_json)).plan

\* execute_plan has run to its return on a completion that parsed as a plan
PlanReturned == pc = "returned" /\ Classify(plan_json) = "plan"

LastCall == calls[Len(calls)]

\* C1: a turn that reaches the loop makes at least 1 and at most 5 completion
\* calls; after a 5th round with done still false the only step is the return
\* of handle_user_input, without an error and without a 6th round.
C1_AtMostFiveRounds ==
    /\ [](iteration \in 0..5)
    /\ [](last_turn = "returned" => iteration \in 1..5)
    /\ [](last_turn \in {"RuntimeError", "ListToolsError"} => iteration = 0)
    /\ [][(pc = "loop" /\ iteration = 5)
            => (pc' = "idle" /\ last_turn' = "returned" /\ iteration' = 5)]_vars

C1_Witness == pc = "idle" /\ last_turn = "returned" /\ iteration = 5 /\ ~done

\* C2 (as claimed): a text-only round calls no tool and is the last round of
\* its turn: after it no further completion call is made.
C2_TextOnlyEndsTurn ==
    /\ [](pc = "returned" /\ RoundKind(plan_json) = "text" => calls = <<>>)
    /\ [][(pc = "loop" /\ last_round = "text")
            => (pc' = "idle" /\ iteration' = iteration)]_vars

\* C3: a completion that starts with a brace and is not valid JSON makes
\* execute_plan call no tool, leave the context unchanged and return true, and
\* the turn ends after that round without another completion call.
C3_ParseErrorStopsTurn ==
    /\ [][(pc = "execute" /\ Classify(plan_json) = "parse_error")
            => (context' = context /\ calls' = <<>> /\ returned' = TRUE
                /\ pc' = "returned")]_vars
    /\ [](pc = "returned" /\ Classify(plan_json) = "parse_error"
            => returned /\ calls = <<>>)
    /\ [][(pc = "loop" /\ last_round = "parse_error")
            => (pc' = "idle" /\ last_turn' = "returned" /\ iteration' = iteration
                /\ context' = context)]_vars

C3_Witness ==
    pc = "idle" /\ last_turn = "returned" /\ last_round = "parse_error" /\ iteration = 1

\* C4 (as claimed): a failed completion call is printed as text, no tool is
\* called, and the turn ends: no further completion call is made in that turn.
C4_CompletionFailureEndsTurn ==
    /\ [](pc = "returned" /\ plan_json = GeminiErrorText
            => (calls = <<>> /\ \E j \in 1..Len(printed) : printed[j].k = "Info text only"))
    /\ [][(pc = "loop" /\ last_round = "gemini_error")
            => (pc' = "idle" /\ iteration' = iteration)]_vars

\* C5: every action of a parsed plan is invoked exactly once, in declaration
\* order, whichever of the calls fail: the j-th call made is the call of the
\* j-th action, and execute_plan returns after as many calls as actions.
C5_EachActionOnceInOrder ==
    /\ pc = "actions" => (Len(calls) = cursor - 1 /\ cursor <= Len(GivenPlan.actions) + 1)
    /\ pc \in {"actions", "returned"}
         => /\ Len(calls) <= Len(GivenPlan.actions)
            /\ \A j \in 1..Len(calls) : calls[j].tool = GivenPlan.actions[j].tool
    /\ PlanReturned => Len(calls) = Len(GivenPlan.actions)

C5_Witness ==
    /\ PlanReturned
    /\ Len(calls) = 3
    /\ ~calls[1].outcome.ok
    /\ calls[2].outcome.ok
    /\ calls[1].tool # calls[2].tool

\* the value "$a_data[0]" stands for in a context
ExpectedFirst(ctx) ==
    IF NameAData \in DOMAIN ctx /\ ctx[NameAData].t = "list" /\ Len(ctx[NameAData].v) >= 1
    THEN ctx[NameAData].v[1] ELSE PyNone

\* the value "$a_data.f" stands for in a context
ExpectedField(ctx) ==
    IF NameAData \in DOMAIN ctx /\ ctx[NameAData].t = "dict" /\ "f" \in DOMAIN ctx[NameAData].v
    THEN ctx[NameAData].v.f ELSE PyNone

\* C6: an argument whose reference cannot be resolved ($missing_data.field,
\* missing_data never saved) is passed as None and the tool is still invoked,
\* once; the other arguments of the action get their values, and the later
\* actions of the plan still run.
C6_UnresolvedReferenceIsNull ==
    /\ [][(pc = "actions" /\ cursor <= Len(plan.actions)
           /\ plan.actions[cursor].tool = "list_channels")
            => /\ Len(calls') = Len(calls) + 1
               /\ calls'[Len(calls')].tool = "list_channels"
               /\ calls'[Len(calls')].args.user = PyNone
               /\ calls'[Len(calls')].args.text = PyStr(<<"hi">>)
               /\ calls'[Len(calls')].args.channel =
                    (IF NameAData \in DOMAIN context THEN context[NameAData] ELSE PyNone)
               /\ cursor' = cursor + 1]_vars
    /\ [][(pc = "actions" /\ cursor <= Len(plan.actions)
           /\ plan.actions[cursor].tool = "get_messages")
            => /\ Len(calls') = Len(calls) + 1
               /\ calls'[Len(calls')].args.channel = ExpectedFirst(context)
               /\ calls'[Len(calls')].args.text = ExpectedField(context)
               /\ cursor' = cursor + 1]_vars
    /\ [](PlanReturned => Len(calls) = Len(GivenPlan.actions))

C6_Witness ==
    /\ PlanReturned
    /\ Len(calls) = 2
    /\ calls[1].tool = "list_channels"
    /\ GivenPlan.actions[1].args.user = PyStr(RefMissing)
    /\ calls[1].args.user = PyNone
    /\ calls[1].args.channel # PyNone
    /\ calls[2].tool = "get_messages"

\* C7: right after an action with save_as = N whose call succeeded, context[N]
\* is the result the call returned and context[N + "_data"] is
\* extract_tool_result_content of that result.
C7_SavedRawAndNormalized ==
    (/\ pc \in {"actions", "returned"}
     /\ calls # <<>>
     /\ LastCall.outcome.ok
     /\ Truthy(GivenPlan.actions[Len(calls)].save_as))
    => LET name == GivenPlan.actions[Len(calls)].save_as.v
           result == LastCall.outcome.v
       IN /\ name \in DOMAIN context
          /\ context[name] = result
          /\ result \in ToolResults
          /\ DataName(name) \in DOMAIN context
          /\ context[DataName(name)] = extract_tool_result_content(result)
          /\ (result = ResultOne => context[DataName(name)] = PyDict([f |-> PyInt(7)]))
          /\ (result = ResultTwo
                => context[DataName(name)] = PyList(<<PyStr(TxtProse), PyInt(7)>>))

C7_Witness ==
    /\ pc = "actions"
    /\ Len(calls) = 2
    /\ calls[2].outcome.ok
    /\ calls[2].outcome.v = ResultTwo
    /\ calls[1].outcome.ok
    /\ calls[1].outcome.v = ResultOne
    /\ GivenPlan.actions[2].save_as = Some(NameA)
    /\ GivenPlan.actions[1].save_as = Some(NameA)

\* the calls of the running round that succeeded and saved under a name
SavesOf(name) ==
    {j \in 1..Len(calls) :
        calls[j].outcome.ok /\ GivenPlan.actions[j].save_as = Some(name)}

\* the last of a non-empty set of positions
Latest(S) == CHOOSE j \in S : \A m \in S : m <= j

\* C8 (as claimed): for every name N used as save_as by a successful action,
\* context[N] is the raw result of the last successful action saved as N and
\* context[N + "_data"] is the normalized form of that same result.
C8_LastSaveWins ==
    pc \in {"actions", "returned"}
    => \A name \in {NameA, NameAData} :
         SavesOf(name) # {}
         => LET result == calls[Latest(SavesOf(name))].outcome.v
            IN /\ ContextGet(context, name) = result
               /\ ContextGet(context, DataName(name)) = extract_tool_result_content(result)

\* C9 (as claimed): the actions run in declaration order and an action that
\* references $a_data, where an earlier action of the same plan saved a, is
\* invoked with the normalized result of that earlier action.
C9_LaterActionSeesEarlierResult ==
    pc \in {"actions", "returned"}
    => \A j \in 1..Len(calls) :
         /\ calls[j].tool = GivenPlan.actions[j].tool
         /\ \A k \in DOMAIN GivenPlan.actions[j].args :
              LET earlier == {m \in SavesOf(NameA) : m < j}
              IN (GivenPlan.actions[j].args[k] = PyStr(RefAData) /\ earlier # {})
                 => calls[j].args[k] =
                      extract_tool_result_content(calls[Latest(earlier)].outcome.v)

\* C10: execute_plan on a parsed plan runs the actions and returns the plan's
\* done value, or true when the plan has no done field; the value becomes the
\* loop's done, and a true done ends the turn after that round.
C10_DoneDefaultsToTrue ==
    /\ [](PlanReturned
            => /\ Len(calls) = Len(GivenPlan.actions)
               /\ (~GivenPlan.done.some => returned = TRUE)
               /\ (GivenPlan.done.some => returned = GivenPlan.done.v))
    /\ [][pc = "returned" => (done' = returned /\ pc' = "loop")]_vars
    /\ [][(pc = "loop" /\ done)
            => (pc' = "idle" /\ last_turn' = "returned" /\ iteration' = iteration)]_vars

C10_Witness ==
    /\ PlanReturned
    /\ ~GivenPlan.done.some
    /\ Len(calls) = 2
    /\ returned
    /\ iteration = 1

\* C11: the tool catalogue is fetched anew for every round, so a turn in its
\* k-th round has listed the tools k times.
C11_CatalogueListedEachRound ==
    pc \in {"execute", "actions", "returned"} => listings = iteration

\* the lines of the round that show the response
ResponseLines == {i \in DOMAIN printed : printed[i] = Line("response", 0)}

\* C12: a plan with a non-empty response has it shown in that same round,
\* once, after every action was processed, whether done is true or false;
\* a plan without response shows none.
C12_ResponseShownInItsRound ==
    PlanReturned =>
        IF Truthy(GivenPlan.response)
        THEN /\ ResponseLines = {Len(printed)}
             /\ Len(calls) = Len(GivenPlan.actions)
        ELSE ResponseLines = {}

C12_Witness ==
    /\ PlanReturned
    /\ Truthy(GivenPlan.response)
    /\ ~returned
    /\ Len(calls) = 2
    /\ ResponseLines = {Len(printed)}

\* the step is a successful tool call of an action that saves under `key`
\* or under the name whose derived name is `key`
SavesUnder(key) ==
    /\ pc = "actions"
    /\ cursor <= Len(plan.actions)
    /\ Len(calls') = Len(calls) + 1
    /\ calls'[Len(calls')].outcome.ok
    /\ Truthy(plan.actions[cursor].save_as)
    /\ key \in {plan.actions[cursor].save_as.v, DataName(plan.actions[cursor].save_as.v)}

ImageContent == PyObj("ImageContent", [model_dump |-> PyDict([type |-> PyStr(<<"image">>)])])

\* an object with neither text nor model_dump
Opaque == PyObj("object", <<>>)

\* items a content list is made of
Items == {TextContent(TxtObject), TextContent(TxtProse), TextContent(TxtNull),
          TextContent(TxtArray), ImageContent, Opaque}

ContentLists == UNION {[1..n -> Items] : n \in 0..MaxItems}

\* a result whose content is one value, not a list
WithContent(x) == PyObj("CallToolResult", [content |-> x])

\* values call_tool can return: results with a content list, with a single
\* content, and values without a content attribute
ProbeResults ==
    {CallToolResult(c) : c \in ContentLists}
    \cup {WithContent(x) : x \in {TextContent(TxtObject), TextContent(TxtProse),
                                   PyStr(TxtProse), PyInt(7), PyNone}}
    \cup {PyDict([f |-> PyInt(7)]), PyStr(TxtProse), PyList(<<PyInt(7)>>), Opaque}

\* contexts execute_plan can have built with save_as "a"
ProbeContexts ==
    {<<>>} \cup {SaveResult(<<>>, Some(NameA), r) :
                   r \in ToolResults \cup {CallToolResult(<<TextContent(TxtNull)>>)}}

\* a segment of a reference: a name, or an index in decimal digits
NameSeg(n) == [k |-> "name", s |-> <<n>>]
IndexSeg(digits) == [k |-> "index", s |-> digits]

Segments == {NameSeg(n) : n \in {"content", "text", "f", "zz"}}
            \cup {IndexSeg(d) : d \in {<<"0">>, <<"1">>, <<"1", "0">>}}

\* a reference as its root name and its segments
Paths == [root : {NameA, NameAData, <<"b">>},
          segs : UNION {[1..n -> Segments] : n \in 0..MaxPath}]

\* the segments spelled "a.0.b" or "a[0].b"
RECURSIVE SpellSegs(_, _)
SpellSegs(segs, bracketed) ==
    IF segs = <<>> THEN <<>>
    ELSE (IF bracketed /\ Head(segs).k = "index"
          THEN <<"[">> \o Head(segs).s \o <<"]">>
          ELSE <<".">> \o Head(segs).s)
         \o SpellSegs(Tail(segs), bracketed)

Dotted(path) == <<"$">> \o path.root \o SpellSegs(path.segs, FALSE)
Bracketed(path) == <<"$">> \o path.root \o SpellSegs(path.segs, TRUE)

\* the args of an action that passes the reference as its channel
ArgsWith(path) == [channel |-> PyStr(Bracketed(path)), text |-> PyStr(<<"hi">>)]

\* language tags after an opening fence
FenceTags == {Absent, Some("json"), Some("python")}

\* texts that are put between fences
FenceBodies ==
    {<<Object(p)>> : p \in {q \in Plans : Len(q.actions) <= 1}}
    \cup {<<Word("Hello"), Ws, Word("there")>>, <<Brace, Word("oops")>>, <<>>}

\* the text between an opening fence with its tag and a closing fence
Wrap(text, tag) ==
    <<Fence>> \o (IF tag.some THEN <<Word(tag.v)>> ELSE <<>>) \o <<Ws>>
        \o text \o <<Ws, Fence>>

\* what decides the behaviour of execute_plan on a text: its class and its plan
PlanOf(text) == [kind |-> Classify(text), plan |-> ParsePlan(StripFence(text)).plan]

NotApplied == [done |-> FALSE]

InitFn ==
    /\ mcp_client = "None"
    /\ pc = "idle"
    /\ iteration = 0
    /\ done = FALSE
    /\ plan_json = <<>>
    /\ plan = EmptyPlan
    /\ cursor = 0
    /\ returned = FALSE
    /\ calls = <<>>
    /\ printed = <<>>
    /\ last_round = "none"
    /\ last_turn = "none"
    /\ listings = 0
    /\ current_tokens = NoTokens
    /\ requests = <<>>
    /\ HostsIdle
    /\ \/ /\ context = <<>>
          /\ probe \in {[op |-> "normalize", arg |-> r, out |-> NotApplied] : r \in ProbeResults}
       \/ /\ context \in ProbeContexts
          /\ probe \in {[op |-> o, arg |-> p, out |-> NotApplied] :
                          o \in {"resolve", "args"}, p \in Paths}
       \/ /\ context = <<>>
          /\ probe \in {[op |-> "fence", arg |-> [text |-> b, tag |-> g], out |-> NotApplied] :
                          b \in FenceBodies, g \in FenceTags}

agent == <<mcp_client, pc, iteration, done, plan_json, plan, cursor, returned,
           calls, printed, last_round, last_turn, listings>>

\* lines 175-180 on a result of call_tool, with save_as "a"
ApplyNormalize ==
    /\ probe.op = "normalize" /\ ~probe.out.done
    /\ probe' = [probe EXCEPT !.out = [done |-> TRUE,
                                        v |-> extract_tool_result_content(probe.arg)]]
    /\ context' = SaveResult(context, Some(NameA), probe.arg)
    /\ UNCHANGED <<agent, current_tokens, requests, hosts>>

\* resolve_reference on both spellings of a path
ApplyResolve ==
    /\ probe.op = "resolve" /\ ~probe.out.done
    /\ probe' = [probe EXCEPT !.out = [done |-> TRUE,
                                        dotted |-> resolve_reference(context, Dotted(probe.arg)),
                                        bracketed |-> resolve_reference(context, Bracketed(probe.arg))]]
    /\ UNCHANGED <<agent, context, current_tokens, requests, hosts>>

\* lines 161-168 on the args of one action
ApplyResolveArgs ==
    /\ probe.op = "args" /\ ~probe.out.done
    /\ probe' = [probe EXCEPT !.out = [done |-> TRUE,
                                        args |-> ResolveArgs(context, ArgsWith(probe.arg)),
                                        lines |-> ResolveLines(context, ArgsWith(probe.arg), 1, 1)]]
    /\ UNCHANGED <<agent, context, current_tokens, requests, hosts>>

\* lines 126-148 on a text between fences and on the text alone
ApplyFence ==
    /\ probe.op = "fence" /\ ~probe.out.done
    /\ probe' = [probe EXCEPT !.out = [done |-> TRUE,
                                        fenced |-> PlanOf(Wrap(probe.arg.text, probe.arg.tag)),
                                        plain |-> PlanOf(probe.arg.text)]]
    /\ UNCHANGED <<agent, context, current_tokens, requests, hosts>>

NextFn ==
    \/ ApplyNormalize
    \/ ApplyResolve
    \/ ApplyResolveArgs
    \/ ApplyFence

SpecFn == InitFn /\ [][NextFn]_vars

Applied(op) == probe.op = op /\ probe.out.done

\* C14: a content list of exactly one item normalizes to that item's value
\* itself, and after save_as = "a" the reference $a_data resolves to it; a
\* list of zero or of two or more items normalizes to a list of that length.
C14_SingleElementCollapses ==
    (Applied("normalize") /\ HasAttr(probe.arg, "content") /\ probe.arg.v.content.t = "list") =>
        LET items == probe.arg.v.content.v
            r == resolve_reference(context, RefAData)
        IN IF Len(items) = 1
           THEN /\ probe.out.v = ExtractItem(items[1])
                /\ r.ok
                /\ r.v = ExtractItem(items[1])
           ELSE /\ probe.out.v.t = "list"
                /\ Len(probe.out.v.v) = Len(items)

\* C15: a path resolves to the same value, or fails the same way, whether
\* its indices are spelled in brackets or after dots.
C15_BracketsAndDotsAgree ==
    Applied("resolve") => probe.out.bracketed = probe.out.dotted

C15_Witness ==
    /\ Applied("resolve")
    /\ probe.arg = [root |-> NameA, segs |-> <<NameSeg("content"), IndexSeg(<<"0">>)>>]
    /\ Bracketed(probe.arg) # Dotted(probe.arg)
    /\ context = SaveResult(<<>>, Some(NameA), ResultOne)
    /\ probe.out.bracketed = Returned(TextContent(TxtObject))

\* C16: a text between an opening fence, with or without a language tag,
\* and a closing fence is classified and parsed as the text alone is.
C16_FencedBehavesAsUnwrapped ==
    Applied("fence") => probe.out.fenced = probe.out.plain

\* the result has no content shape that is recognized: no content list and
\* no content with a text
Unrecognized(result) ==
    ~(HasAttr(result, "content")
        /\ (result.v.content.t = "list" \/ HasAttr(result.v.content, "text")))

RECURSIVE ValueAt(_, _)
ValueAt(value, segs) ==
    IF segs = <<>> THEN [ok |-> TRUE, v |-> value]
    ELSE LET seg == Head(segs)
         IN IF seg.k = "index"
            THEN IF value.t \in {"list", "str"} /\ IntOf(seg.s) < Len(value.v)
                 THEN ValueAt(IF value.t = "list" THEN value.v[IntOf(seg.s) + 1]
                              ELSE PyStr(<<value.v[IntOf(seg.s) + 1]>>), Tail(segs))
                 ELSE [ok |-> FALSE, v |-> PyNone]
            ELSE IF value.t = "dict"
            THEN ValueAt(IF seg.s[1] \in DOMAIN value.v THEN value.v[seg.s[1]] ELSE PyNone,
                         Tail(segs))
            ELSE IF HasAttr(value, seg.s[1]) THEN ValueAt(value.v[seg.s[1]], Tail(segs))
            ELSE [ok |-> FALSE, v |-> PyNone]

\* the root must name an entry of the context
ClaimedLookup(ctx, path) ==
    IF path.root \in DOMAIN ctx THEN ValueAt(ctx[path.root], path.segs)
    ELSE [ok |-> FALSE, v |-> PyNone]

\* C18: resolve_reference fails exactly when the root names no entry, an
\* index is out of range or on a value without positions, or a name is
\* applied to a value that is neither mapping nor object with that attribute;
\* otherwise it returns the value at the path.
C18_FailsExactlyOffThePath ==
    Applied("resolve") =>
        LET claimed == ClaimedLookup(context, probe.arg)
        IN /\ probe.out.dotted.ok = claimed.ok
           /\ claimed.ok => probe.out.dotted.v = claimed.v

\* the path leads to a value that is stored: every key, attribute and
\* position it names is there
RECURSIVE StoredFrom(_, _)
StoredFrom(value, segs) ==
    IF segs = <<>> THEN TRUE
    ELSE LET seg == Head(segs)
         IN IF seg.k = "index"
            THEN /\ value.t \in {"list", "str"}
                 /\ IntOf(seg.s) < Len(value.v)
                 /\ StoredFrom(IF value.t = "list" THEN value.v[IntOf(seg.s) + 1]
                               ELSE PyStr(<<value.v[IntOf(seg.s) + 1]>>), Tail(segs))
            ELSE /\ value.t \in {"dict", "obj"}
                 /\ seg.s[1] \in DOMAIN value.v
                 /\ StoredFrom(value.v[seg.s[1]], Tail(segs))

StoredAt(ctx, path) == path.root \in DOMAIN ctx /\ StoredFrom(ctx[path.root], path.segs)

\* C19: no error is dropped silently: an argument whose reference leads to
\* no stored value leaves a line that says the reference failed.
C19_NoSilentNull ==
    (Applied("args") /\ ~StoredAt(context, probe.arg)) =>
        \E i \in DOMAIN probe.out.lines :
            probe.out.lines[i].k = "Error reference" /\ probe.out.lines[i].arg = "channel"

(* ------------------------------------------------------------------ *)
(* oauth_server: mcp_handler and the tokens its tools use              *)
(* ------------------------------------------------------------------ *)
\* teams with an entry in tokens.json
KnownTeams == {"T1", "T2"}

\* what a request names: no team, an installed team, or a team never installed
TeamIds == {"none", "T1", "T2", "T9"}

\* get_tokens_for_team(team_id) of an installed team
TokensOf(team) == [bot |-> <<"xoxb", team>>, user |-> <<"xoxp", team>>]

\* os.environ SLACK_BOT_TOKEN and SLACK_USER_TOKEN
EnvTokens == [bot |-> <<"xoxb", "env">>, user |-> <<"xoxp", "env">>]

\* set_current_tokens when the request names an installed team (lines 261-266)
SetCurrentTokens(current, team) ==
    IF team \in KnownTeams THEN TokensOf(team) ELSE current

\* get_clients: `_current_bot_token or os.environ.get(...)`
GetClients(current) ==
    [bot |-> IF current.bot # "None" THEN current.bot ELSE EnvTokens.bot,
     user |-> IF current.user # "None" THEN current.user ELSE EnvTokens.user]

InitOAuth ==
    /\ mcp_client = "None"
    /\ context = <<>>
    /\ pc = "idle"
    /\ iteration = 0
    /\ done = FALSE
    /\ plan_json = <<>>
    /\ plan = EmptyPlan
    /\ cursor = 0
    /\ returned = FALSE
    /\ calls = <<>>
    /\ printed = <<>>
    /\ last_round = "none"
    /\ last_turn = "none"
    /\ listings = 0
    /\ probe = NoProbe
    /\ current_tokens = NoTokens
    /\ requests = <<>>
    /\ HostsIdle

\* mcp_handler up to `await request.body()`: the team is read from the
\* header or the cookie and its tokens become the current tokens
McpHandlerStart ==
    /\ Len(requests) < MaxRequests
    /\ \E team \in TeamIds :
         /\ current_tokens' = SetCurrentTokens(current_tokens, team)
         /\ requests' = Append(requests, [team |-> team, at |-> "body", used |-> NoTokens])
    /\ UNCHANGED <<agent, context, probe, hosts>>

\* `body = await request.body()` completes
McpHandlerBody ==
    /\ \E r \in DOMAIN requests :
         /\ requests[r].at = "body"
         /\ requests' = [requests EXCEPT ![r].at = "handle"]
    /\ UNCHANGED <<agent, context, probe, current_tokens, hosts>>

\* `await transport.handle(scope, receive)`: the tool of the request runs
\* and builds its clients with get_clients()
McpHandlerTool ==
    /\ \E r \in DOMAIN requests :
         /\ requests[r].at = "handle"
         /\ requests' = [requests EXCEPT ![r].at = "done",
                                          ![r].used = GetClients(current_tokens)]
    /\ UNCHANGED <<agent, context, probe, current_tokens, hosts>>

NextOAuth ==
    \/ McpHandlerStart
    \/ McpHandlerBody
    \/ McpHandlerTool

SpecOAuth == InitOAuth /\ [][NextOAuth]_vars

\* the tokens a request is entitled to: those of the team it names, or the
\* defaults of the environment when it names no installed team
OwnTokens(team) == IF team \in KnownTeams THEN TokensOf(team) ELSE EnvTokens

\* C20: the tools run for a request use the tokens of the team the request
\* names, or the defaults of the environment when it names no installed team,
\* never the tokens loaded for the team of another request.
C20_RequestUsesOwnTokens ==
    \A r \in DOMAIN requests :
        requests[r].at = "done" => requests[r].used = OwnTokens(requests[r].team)

(* ------------------------------------------------------------------ *)
(* execute_plan run on one completion, with actions that do not save   *)
(* ------------------------------------------------------------------ *)
\* an action without save_as, and one whose save_as is the empty string
ActNoSave == [ActList EXCEPT !.save_as = Absent]
ActEmptySave == [ActList EXCEPT !.save_as = Some(<<>>)]

ExecActions == {ActList, ActFetch, ActNoSave, ActEmptySave}

ExecPlans == [actions : UNION {[1..n -> ExecActions] : n \in 0..MaxExecActions},
              response : Responses, done : DoneFlags]

ExecCompletions ==
    {<<Object(p)>> : p \in ExecPlans}
    \cup {<<Word("Hello"), Ws, Word("there")>>, <<Brace, Word("oops")>>}

\* execute_plan is entered in round 1 of a turn of a connected agent
InitExec ==
    /\ mcp_client = "connected"
    /\ context \in ProbeContexts
    /\ pc = "execute"
    /\ iteration = 1
    /\ done = FALSE
    /\ plan_json \in ExecCompletions
    /\ plan = EmptyPlan
    /\ cursor = 0
    /\ returned = FALSE
    /\ calls = <<>>
    /\ printed = <<Line("Iteration", 1)>>
    /\ last_round = "none"
    /\ last_turn = "running"
    /\ listings = 1
    /\ probe = NoProbe
    /\ current_tokens = NoTokens
    /\ requests = <<>>
    /\ HostsIdle

NextExec ==
    \/ ExecutePlanParse
    \/ RunAction
    \/ FinishPlan

SpecExec == InitExec /\ [][NextExec]_vars

\* `if save_as:` is false for the action: save_as is absent or empty
SavesNothing(action) == IF action.save_as.some THEN action.save_as.v = <<>> ELSE TRUE

\* C22: an action whose tool call raises, and an action whose save_as is
\* absent or empty, leave the context as it was before the action.
C22_NoSaveLeavesContext ==
    [][ (/\ pc = "actions"
         /\ cursor <= Len(plan.actions)
         /\ Len(calls') = Len(calls) + 1
         /\ (~calls'[Len(calls')].outcome.ok \/ SavesNothing(plan.actions[cursor])))
        => context' = context ]_vars

C22_Witness ==
    /\ PlanReturned
    /\ Len(calls) = 2
    /\ GivenPlan.actions[1].save_as = Some(NameA)
    /\ GivenPlan.actions[2].save_as = Some(<<>>)
    /\ calls[1].outcome.ok /\ calls[2].outcome.ok
    /\ calls[2].outcome.v # calls[1].outcome.v
    /\ DOMAIN context = {NameA, NameAData}
    /\ context[NameA] = calls[1].outcome.v

\* C23: what execute_plan returns for a parsed plan is the plan's done (true
\* when absent), whatever became of its references and tool calls: the loop
\* takes it as its done, a true value ends the turn and a false value lets
\* the loop go on while rounds are left.
C23_ReturnDependsOnlyOnDone ==
    [][ (PlanReturned /\ pc' = "loop")
        => LET d == IF GivenPlan.done.some THEN GivenPlan.done.v ELSE TRUE
           IN /\ done' = d
              /\ d => ~LoopGuard'
              /\ (~d /\ iteration < MaxIterations) => LoopGuard' ]_vars

C23_Witness ==
    /\ PlanReturned
    /\ GivenPlan.done = Some(TRUE)
    /\ Len(calls) = 2
    /\ ~calls[1].outcome.ok /\ ~calls[2].outcome.ok
    /\ calls[1].args.channel = PyNone
    /\ returned

(* ------------------------------------------------------------------ *)
(* Turns of several conversations on one event loop                    *)
(* ------------------------------------------------------------------ *)
\* the agent loop, the standalone functions and oauth_server at rest
AgentIdle ==
    /\ mcp_client = "None"
    /\ context = <<>>
    /\ pc = "idle"
    /\ iteration = 0
    /\ done = FALSE
    /\ plan_json = <<>>
    /\ plan = EmptyPlan
    /\ cursor = 0
    /\ returned = FALSE
    /\ calls = <<>>
    /\ printed = <<>>
    /\ last_round = "none"
    /\ last_turn = "none"
    /\ listings = 0
    /\ probe = NoProbe
    /\ current_tokens = NoTokens
    /\ requests = <<>>

rest == <<agent, context, probe, current_tokens, requests>>
run_vars == <<running, run_state, cleanups>>
client_vars == <<mcp_session, client_at, ops>>

Conversations == 1..MaxConversations

InitLoop ==
    /\ AgentIdle
    /\ turns = [c \in Conversations |-> [at |-> "ready", iteration |-> 0]]
    /\ thread = Free
    /\ running = TRUE
    /\ run_state = NotRunning
    /\ cleanups = 0
    /\ mcp_session = "None"
    /\ client_at = "new"
    /\ ops = <<>>

\* handle_user_input runs up to `await self.mcp_client.get_tool_list_summary()`
\* (line 200): the coroutine is suspended and the thread is free again
BeginTurn(c) ==
    /\ thread = Free
    /\ turns[c].at = "ready"
    /\ turns' = [turns EXCEPT ![c].at = "list_tools"]
    /\ UNCHANGED <<thread, rest, run_vars, client_vars>>

\* the tool list arrives and the coroutine runs on into ask_gemini (line 243):
\* a plain call of a plain function, which holds the thread until
\* generate_content returns; or the listing raises and the turn is over
ToolListReturned(c) ==
    /\ thread = Free
    /\ turns[c].at = "list_tools"
    /\ \/ /\ turns' = [turns EXCEPT ![c] = [at |-> "completion", iteration |-> 1]]
          /\ thread' = c
       \/ /\ turns' = [turns EXCEPT ![c].at = "done"]
          /\ thread' = thread
    /\ UNCHANGED <<rest, run_vars, client_vars>>

\* where the coroutine goes when execute_plan comes to a tool call, or
\* returns done or not done, and which conversation then holds the thread
AfterPlanStep(c, step) ==
    IF step = "call_tool" THEN [turn |-> [turns[c] EXCEPT !.at = "call_tool"], thread |-> Free]
    ELSE IF step = "return_not_done" /\ turns[c].iteration < MaxIterations
    THEN [turn |-> [at |-> "completion", iteration |-> turns[c].iteration + 1], thread |-> c]
    ELSE [turn |-> [turns[c] EXCEPT !.at = "done"], thread |-> Free]

PlanSteps == {"call_tool", "return_done", "return_not_done"}

\* generate_content returns; execute_plan runs to its first
\* `await self.mcp_client.call_tool` (line 172) or to its return
CompletionReturned(c) ==
    /\ thread = c
    /\ turns[c].at = "completion"
    /\ \E step \in PlanSteps :
         /\ turns' = [turns EXCEPT ![c] = AfterPlanStep(c, step).turn]
         /\ thread' = AfterPlanStep(c, step).thread
    /\ UNCHANGED <<rest, run_vars, client_vars>>

\* call_tool returns or raises; execute_plan runs to its next tool call or
\* to its return
ToolReturned(c) ==
    /\ thread = Free
    /\ turns[c].at = "call_tool"
    /\ \E step \in PlanSteps :
         /\ turns' = [turns EXCEPT ![c] = AfterPlanStep(c, step).turn]
         /\ thread' = AfterPlanStep(c, step).thread
    /\ UNCHANGED <<rest, run_vars, client_vars>>

NextLoop ==
    \E c \in Conversations :
        \/ BeginTurn(c)
        \/ ToolListReturned(c)
        \/ CompletionReturned(c)
        \/ ToolReturned(c)

SpecLoop == InitLoop /\ [][NextLoop]_vars

\* the turn is waiting on the Completion Provider or on the Tool Provider
Waiting(c) == turns[c].at \in {"completion", "call_tool"}

\* the turn has a step that the event loop would run when it gets the thread
Runnable(d) == turns[d].at \in {"ready", "list_tools", "call_tool"}

\* C21: while the turn of one conversation waits on a completion call or on
\* a tool call, the event loop can run the steps of the other conversations.
C21_BothCallsAreSuspensionPoints ==
    \A c \in Conversations, d \in Conversations :
        (c # d /\ Waiting(c) /\ Runnable(d))
            => ENABLED (BeginTurn(d) \/ ToolListReturned(d) \/ ToolReturned(d))

(* ------------------------------------------------------------------ *)
(* run_async: the session loop                                         *)
(* ------------------------------------------------------------------ *)
loop_vars == <<turns, thread>>

\* what is left alone by run_async apart from mcp_client, context and its own state
run_rest == <<pc, iteration, done, plan_json, plan, cursor, returned, calls, printed,
              last_round, last_turn, listings, probe, current_tokens, requests,
              loop_vars, client_vars>>

InitRun ==
    /\ AgentIdle
    /\ HostsIdle

\* `await self.connect_mcp()` (line 247): the loop is entered, or the
\* exception of connect leaves run_async before any input is read
RunAsyncConnect ==
    /\ run_state.at = "start"
    /\ \/ /\ mcp_client' = "connected"
          /\ run_state' = [run_state EXCEPT !.at = "input"]
       \/ /\ mcp_client' = mcp_client
          /\ run_state' = [run_state EXCEPT !.at = "ended", !.ended_by = "connect_error"]
    /\ UNCHANGED <<context, running, cleanups, run_rest>>

\* what the context can be after a turn: as before, or with the result of an
\* action saved
ContextsAfterTurn ==
    {context} \cup {SaveResult(context, Some(NameA), r) : r \in ToolResults}

\* the input is empty after strip(): `continue` (lines 253-254)
ReadEmpty ==
    /\ run_state.at = "input" /\ run_state.inputs < MaxInputs
    /\ run_state' = [run_state EXCEPT !.inputs = @ + 1, !.last_input = "empty"]
    /\ UNCHANGED <<mcp_client, context, running, cleanups, run_rest>>

\* input() raises an Exception, such as EOFError: printed at lines 263-266
ReadRaises ==
    /\ run_state.at = "input" /\ run_state.inputs < MaxInputs
    /\ run_state' = [run_state EXCEPT !.inputs = @ + 1, !.last_input = "error"]
    /\ UNCHANGED <<mcp_client, context, running, cleanups, run_rest>>

\* the input is 'exit': self.running = False and break (lines 255-257)
ReadExit ==
    /\ run_state.at = "input"
    /\ running' = FALSE
    /\ run_state' = [run_state EXCEPT !.at = "after_loop", !.ended_by = "exit",
                                       !.last_input = "exit"]
    /\ UNCHANGED <<mcp_client, context, cleanups, run_rest>>

\* any other input: handle_user_input is awaited (line 258)
ReadText ==
    /\ run_state.at = "input" /\ run_state.inputs < MaxInputs
    /\ run_state' = [run_state EXCEPT !.at = "turn", !.inputs = @ + 1, !.last_input = "text"]
    /\ UNCHANGED <<mcp_client, context, running, cleanups, run_rest>>

\* handle_user_input returns: back to `while self.running`
TurnReturns ==
    /\ run_state.at = "turn"
    /\ context' \in ContextsAfterTurn
    /\ run_state' = [run_state EXCEPT !.at = "input"]
    /\ UNCHANGED <<mcp_client, running, cleanups, run_rest>>

\* handle_user_input raises an Exception: printed at lines 263-266, and the
\* loop goes on; what the turn saved before it raised stays
TurnRaises ==
    /\ run_state.at = "turn"
    /\ context' \in ContextsAfterTurn
    /\ run_state' = [run_state EXCEPT !.at = "input"]
    /\ UNCHANGED <<mcp_client, running, cleanups, run_rest>>

\* Ctrl-C that is raised as KeyboardInterrupt inside the coroutine: caught at
\* lines 259-262, self.running = False and break
InterruptRaised ==
    /\ run_state.at \in {"input", "turn"}
    /\ running' = FALSE
    /\ run_state' = [run_state EXCEPT !.at = "after_loop", !.ended_by = "interrupt"]
    /\ UNCHANGED <<mcp_client, context, cleanups, run_rest>>

\* Ctrl-C that asyncio.run (line 273) turns into the cancellation of its main
\* task: CancelledError is raised at the await of line 251 or inside line
\* 258; it is no Exception and no KeyboardInterrupt, so it leaves run_async
InterruptCancels ==
    /\ run_state.at \in {"input", "turn"}
    /\ run_state' = [run_state EXCEPT !.at = "ended", !.ended_by = "interrupt"]
    /\ UNCHANGED <<mcp_client, context, running, cleanups, run_rest>>

\* after the loop: `if self.mcp_client: await self.mcp_client.cleanup()`
AfterLoop ==
    /\ run_state.at = "after_loop"
    /\ cleanups' = IF mcp_client # "None" THEN cleanups + 1 ELSE cleanups
    /\ run_state' = [run_state EXCEPT !.at = "ended"]
    /\ UNCHANGED <<mcp_client, context, running, run_rest>>

NextRun ==
    \/ RunAsyncConnect
    \/ ReadEmpty
    \/ ReadRaises
    \/ ReadExit
    \/ ReadText
    \/ TurnReturns
    \/ TurnRaises
    \/ InterruptRaised
    \/ InterruptCancels
    \/ AfterLoop

SpecRun == InitRun /\ [][NextRun]_vars

\* C24: a turn that ends, with an exception or without, gives way to the
\* next input with every entry of the context kept, unless it is interrupted
\* from the keyboard; only an input that is neither empty nor 'exit' starts a
\* turn; a session that was begun ends only by 'exit' or by an interrupt from
\* the keyboard, and when it has ended cleanup() was called exactly once.
C24_SessionSurvivesErrors ==
    /\ [][run_state.at = "turn"
            => \/ /\ run_state'.at = "input"
                  /\ running'
                  /\ \A k \in DOMAIN context : k \in DOMAIN context'
               \/ run_state'.ended_by = "interrupt"]_vars
    /\ [][(run_state.at # "turn" /\ run_state'.at = "turn")
            => run_state'.last_input = "text"]_vars
    /\ [](cleanups <= 1)
    /\ []((run_state.at = "ended" /\ run_state.ended_by # "connect_error")
            => /\ run_state.ended_by \in {"exit", "interrupt"}
               /\ cleanups = 1)

(* ------------------------------------------------------------------ *)
(* SlackMCPClientWithLLM: connect, calls, cleanup                      *)
(* ------------------------------------------------------------------ *)
\* what is left alone by the client
client_rest == <<rest, loop_vars, run_vars>>

InitClient ==
    /\ AgentIdle
    /\ HostsIdle

\* connect() is called and awaits stdio_client (lines 33-35)
ConnectCalled ==
    /\ client_at \in {"new", "closed", "connect_failed"}
    /\ client_at' = "stdio"
    /\ UNCHANGED <<mcp_session, ops, client_rest>>

\* stdio_client is entered and connect() awaits ClientSession (lines 37-39),
\* or it raises
StdioEntered ==
    /\ client_at = "stdio"
    /\ client_at' \in {"client_session", "connect_failed"}
    /\ UNCHANGED <<mcp_session, ops, client_rest>>

\* ClientSession is entered and assigned to self._session (line 37), and
\* connect() awaits initialize() (line 40); or entering it raises
SessionEntered ==
    /\ client_at = "client_session"
    /\ \/ /\ mcp_session' = "open"
          /\ client_at' = "initialize"
       \/ /\ mcp_session' = mcp_session
          /\ client_at' = "connect_failed"
    /\ UNCHANGED <<ops, client_rest>>

\* initialize() returns and connect() completes, or initialize() raises
Initialized ==
    /\ client_at = "initialize"
    /\ client_at' \in {"connected", "connect_failed"}
    /\ UNCHANGED <<mcp_session, ops, client_rest>>

\* session(): ConnectionError when self._session is falsy (lines 43-46),
\* else the call goes to the ClientSession
SessionOrRaise(s) == IF s = "None" THEN "ConnectionError" ELSE "server"

ClientOps == {"list_tools", "call_tool", "get_tool_list_summary"}

\* list_tools, call_tool or get_tool_list_summary (lines 51-59, 98-103)
CallClient ==
    /\ Len(ops) < MaxOps
    /\ \E op \in ClientOps :
         ops' = Append(ops, [op |-> op, at |-> client_at,
                             result |-> SessionOrRaise(mcp_session)])
    /\ UNCHANGED <<mcp_session, client_at, client_rest>>

\* cleanup() is called and awaits self._exit_stack.aclose() (line 109)
CleanupCalled ==
    /\ client_at \in {"new", "connected", "connect_failed"}
    /\ client_at' = "closing"
    /\ UNCHANGED <<mcp_session, ops, client_rest>>

\* aclose() returns and self._session = None (line 110), or aclose() raises
CleanupClosed ==
    /\ client_at = "closing"
    /\ \/ /\ mcp_session' = "None"
          /\ client_at' = "closed"
       \/ /\ mcp_session' = mcp_session
          /\ client_at' = "cleanup_failed"
    /\ UNCHANGED <<ops, client_rest>>

NextClient ==
    \/ ConnectCalled
    \/ StdioEntered
    \/ SessionEntered
    \/ Initialized
    \/ CallClient
    \/ CleanupCalled
    \/ CleanupClosed

SpecClient == InitClient /\ [][NextClient]_vars

\* connect() has not completed, or cleanup() has
NotConnected == {"new", "stdio", "client_session", "initialize", "connect_failed", "closed"}

\* C25: a call made on the client before connect() has completed or after
\* cleanup() fails with ConnectionError and does not reach the server.
C25_CallsNeedCompletedConnect ==
    \A i \in DOMAIN ops :
        ops[i].at \in NotConnected => ops[i].result = "ConnectionError"

====
